---- MODULE Spec2Model ----
(***************************************************************************)
(* molecule_pred/utils.py: generate_charset and smiles_to_onehots.         *)
(*                                                                         *)
(* A Python str is a sequence of code points; a one-character str is a     *)
(* sequence of length 1.  A list is a sequence.  Python indices are        *)
(* 0-based and are kept 0-based in every value named after the source      *)
(* (ind, i); only the access into a TLA+ sequence adds 1.                  *)
(***************************************************************************)
EXTENDS Integers, Sequences, FiniteSets, TLC

VARIABLES
    pc,                 \* position of the calling script
    full_char_list,     \* argument of generate_charset
    charset,            \* value returned by generate_charset (<<>>: not called yet)
    first_char_list,    \* argument of the previous call of generate_charset
    first_charset,      \* value returned by the previous call of generate_charset
    smiles_strings,     \* arguments of smiles_to_onehots
    unique_charset,
    max_smiles_chars,
    one_hots,           \* outcome of smiles_to_onehots on smiles_strings
    prefix_one_hots     \* outcome of smiles_to_onehots on the truncated strings

vars == <<pc, full_char_list, charset, first_char_list, first_charset, smiles_strings,
          unique_charset, max_smiles_chars, one_hots, prefix_one_hots>>

-----------------------------------------------------------------------------
(* Bounds of the model *)

MaxStrLen == 2
MaxStrings == 1
MaxCorpus == 2
MaxLength == 3

\* Code points of '1', 'C', 'X'.
Alphabet == {49, 67, 88}

\* The reserved tokens 'NULL' and 'PAD' as strings.
NULL == <<78, 85, 76, 76>>
PAD == <<80, 65, 68>>

SeqsUpTo(S, n) == UNION {[1..k -> S] : k \in 0..n}

Strs == SeqsUpTo(Alphabet, MaxStrLen)
StringLists == SeqsUpTo(Strs, MaxStrings)
Corpora == SeqsUpTo(Strs, MaxCorpus)

\* A one-character str.
Chr(c) == <<c>>

\* Vocabularies a caller writes by hand, the degenerate ones included.
HandVocabs ==
    { <<>>, <<NULL>>, <<Chr(67)>>, <<NULL, PAD>>, <<PAD, NULL>>,
      <<NULL, PAD, Chr(67)>>, <<NULL, PAD, Chr(49), Chr(67)>>,
      <<NULL, PAD, Chr(67), Chr(67)>>, <<Chr(67), Chr(49)>>,
      <<Chr(67), Chr(49), NULL, PAD>> }

-----------------------------------------------------------------------------
(* generate_charset *)

\* ''.join(full_char_list)
RECURSIVE join(_)
join(l) == IF l = <<>> THEN <<>> ELSE Head(l) \o join(Tail(l))

\* set(s) of a str s: its distinct characters.
set(s) == {s[k] : k \in 1..Len(s)}

Min(S) == CHOOSE m \in S : \A x \in S : m <= x

Max(S) == CHOOSE m \in S : \A x \in S : m >= x

\* sorted(S, reverse=True): descending code points.
RECURSIVE sorted_reverse(_)
sorted_reverse(S) == IF S = {} THEN <<>>
                     ELSE <<Chr(Max(S))>> \o sorted_reverse(S \ {Max(S)})

\* sorted(S) of a set of one-character strs: ascending code points.
RECURSIVE sorted(_)
sorted(S) == IF S = {} THEN <<>>
             ELSE <<Chr(Min(S))>> \o sorted(S \ {Min(S)})

\* The characters of s in the order of their first occurrence.
RECURSIVE first_occurrences(_)
first_occurrences(s) ==
    IF s = <<>> THEN <<>>
    ELSE LET front == first_occurrences(SubSeq(s, 1, Len(s) - 1))
             c == s[Len(s)]
         IN  IF \E k \in 1..(Len(s) - 1) : s[k] = c THEN front
             ELSE Append(front, Chr(c))

\* generate_charset without the sort.
generate_charset_unsorted(l) == <<NULL, PAD>> \o first_occurrences(join(l))

\* generate_charset without the reserved tokens.
generate_charset_unreserved(l) == sorted(set(join(l)))

generate_charset(l) ==
    LET unique_chars == set(join(l))
    IN  <<NULL, PAD>> \o sorted(unique_chars)

-----------------------------------------------------------------------------
(* smiles_to_onehots *)

\* A 1-based position returned where Python's is 0-based.
index_one_based(l, x) ==
    IF \E k \in 1..Len(l) : l[k] = x
    THEN CHOOSE k \in 1..Len(l) : l[k] = x /\ \A h \in 1..(k - 1) : l[h] # x
    ELSE -1

\* unique_charset.index(x): the first position holding x; -1 stands for ValueError.
index(l, x) ==
    IF \E k \in 1..Len(l) : l[k] = x
    THEN Min({k \in 1..Len(l) : l[k] = x}) - 1
    ELSE -1

\* Padding that activates NULL instead of PAD.
Ind_pad_as_null(smiles_string, l, i) ==
    IF i < Len(smiles_string)
    THEN LET found == index(l, Chr(smiles_string[i + 1]))
         IN  IF found = -1 THEN 0 ELSE found
    ELSE 0

\* The value of ind when line 35 is reached, for position i of smiles_string.
Ind(smiles_string, l, i) ==
    IF i < Len(smiles_string)
    THEN LET found == index(l, Chr(smiles_string[i + 1]))
         IN  IF found = -1 THEN 0 ELSE found
    ELSE 1

\* one_hot_col[ind - 1] = 1 without the wrap-around: ind = 0 sets nothing.
OneHotCol_one_based(charset_length, ind) ==
    [k \in 1..charset_length |-> IF k = ind THEN 1 ELSE 0]

\* one_hot_col after line 35; the assignment raises IndexError unless ind < len.
OneHotCol(charset_length, ind) ==
    [k \in 1..charset_length |-> IF k = ind + 1 THEN 1 ELSE 0]

\* one_hot_smiles of one string once its inner loop has run.
OneHotSmiles(smiles_string, l, m) ==
    [p \in 1..m |-> OneHotCol(Len(l), Ind(smiles_string, l, p - 1))]

\* Whether some one_hot_col[ind] = 1 of the call indexes past the list.
RaisesIndexError(strs, l, m) ==
    \E k \in 1..Len(strs) : \E i \in 0..(m - 1) :
        Ind(strs[k], l, i) >= Len(l)

\* np.array(one_hots).shape: an empty list gives a 1-d array of length 0,
\* a list of n arrays of shape (m, c) gives (n, m, c).
np_array_shape(n, m, c) == IF n = 0 THEN <<0>> ELSE <<n, m, c>>

NotCalled == [called |-> FALSE, raised |-> FALSE, shape |-> <<>>, data |-> <<>>]

smiles_to_onehots(strs, l, m) ==
    IF RaisesIndexError(strs, l, m)
    THEN [called |-> TRUE, raised |-> TRUE, shape |-> <<>>, data |-> <<>>]
    ELSE [called |-> TRUE, raised |-> FALSE,
          shape |-> np_array_shape(Len(strs), m, Len(l)),
          data |-> [k \in 1..Len(strs) |-> OneHotSmiles(strs[k], l, m)]]

-----------------------------------------------------------------------------
(* The encoding script: a vocabulary, then the encoding, then the encoding *)
(* of the strings cut to max_smiles_chars characters.                      *)

Take(s, n) == [k \in 1..(IF Len(s) < n THEN Len(s) ELSE n) |-> s[k]]

Prefixes(strs, m) == [k \in 1..Len(strs) |-> Take(strs[k], m)]

Init ==
    /\ pc = "start"
    /\ full_char_list = <<>>
    /\ charset = <<>>
    /\ first_char_list = <<>>
    /\ first_charset = <<>>
    /\ smiles_strings \in StringLists
    /\ unique_charset \in HandVocabs
    /\ max_smiles_chars \in 0..MaxLength
    /\ one_hots = NotCalled
    /\ prefix_one_hots = NotCalled

\* The corpora a vocabulary is built from: the strings to encode themselves, or
\* one string holding the characters of some subset of the alphabet.
TrainingCorpora(strs) == {strs} \cup {<<join(sorted(S))>> : S \in SUBSET Alphabet}

\* charset = generate_charset(corpus), used as the vocabulary of the encoding.
BuildVocabulary ==
    /\ pc = "start"
    /\ charset = <<>>
    /\ \E corpus \in TrainingCorpora(smiles_strings) :
          /\ full_char_list' = corpus
          /\ charset' = generate_charset(corpus)
    /\ unique_charset' = charset'
    /\ UNCHANGED <<pc, first_char_list, first_charset, smiles_strings, max_smiles_chars,
                   one_hots, prefix_one_hots>>

Encode ==
    /\ pc = "start"
    /\ one_hots' = smiles_to_onehots(smiles_strings, unique_charset, max_smiles_chars)
    /\ pc' = "encoded"
    /\ UNCHANGED <<full_char_list, charset, first_char_list, first_charset, smiles_strings,
                   unique_charset, max_smiles_chars, prefix_one_hots>>

EncodePrefixes ==
    /\ pc = "encoded"
    /\ prefix_one_hots' = smiles_to_onehots(Prefixes(smiles_strings, max_smiles_chars),
                                            unique_charset, max_smiles_chars)
    /\ pc' = "done"
    /\ UNCHANGED <<full_char_list, charset, first_char_list, first_charset, smiles_strings,
                   unique_charset, max_smiles_chars, one_hots>>

Next == BuildVocabulary \/ Encode \/ EncodePrefixes

Spec == Init /\ [][Next]_vars

-----------------------------------------------------------------------------
(* The vocabulary script: generate_charset on a corpus, and again after    *)
(* the caller has reordered the corpus or repeated one of its strings.     *)

Swap(l, a, b) ==
    [k \in 1..Len(l) |-> IF k = a THEN l[b] ELSE IF k = b THEN l[a] ELSE l[k]]

InitCharset ==
    /\ pc = "corpus"
    /\ full_char_list \in Corpora
    /\ charset = <<>>
    /\ first_char_list = <<>>
    /\ first_charset = <<>>
    /\ smiles_strings = <<>>
    /\ unique_charset = <<>>
    /\ max_smiles_chars = 0
    /\ one_hots = NotCalled
    /\ prefix_one_hots = NotCalled

GenerateCharset ==
    /\ pc \in {"corpus", "changed"}
    /\ charset' = generate_charset(full_char_list)
    /\ pc' = "generated"
    /\ UNCHANGED <<full_char_list, first_char_list, first_charset, smiles_strings, unique_charset,
                   max_smiles_chars, one_hots, prefix_one_hots>>

Reorder ==
    /\ pc = "generated"
    /\ \E a, b \in 1..Len(full_char_list) :
          /\ a < b
          /\ full_char_list' = Swap(full_char_list, a, b)
    /\ first_char_list' = full_char_list
    /\ first_charset' = charset
    /\ pc' = "changed"
    /\ UNCHANGED <<charset, smiles_strings, unique_charset, max_smiles_chars,
                   one_hots, prefix_one_hots>>

Repeat ==
    /\ pc = "generated"
    /\ Len(full_char_list) < MaxCorpus
    /\ \E a \in 1..Len(full_char_list) :
          full_char_list' = Append(full_char_list, full_char_list[a])
    /\ first_char_list' = full_char_list
    /\ first_charset' = charset
    /\ pc' = "changed"
    /\ UNCHANGED <<charset, smiles_strings, unique_charset, max_smiles_chars,
                   one_hots, prefix_one_hots>>

NextCharset == GenerateCharset \/ Reorder \/ Repeat

SpecCharset == InitCharset /\ [][NextCharset]_vars

-----------------------------------------------------------------------------
(* Vocabulary of the claims *)

\* The characters occurring in a corpus, read off the corpus itself.
CharsIn(l) == UNION {{l[k][j] : j \in 1..Len(l[k])} : k \in 1..Len(l)}

Returned(res) == res.called /\ ~res.raised

\* The entries along the vocabulary axis at (sample k, position i), k from 1, i from 0.
Column(res, k, i) == res.data[k][i + 1]

\* The 0-based indices activated at (sample k, position i).
Active(res, k, i) ==
    {j \in 0..(Len(Column(res, k, i)) - 1) : Column(res, k, i)[j + 1] = 1}

RECURSIVE SumSeq(_)
SumSeq(s) == IF s = <<>> THEN 0 ELSE Head(s) + SumSeq(Tail(s))

Samples == 1..Len(smiles_strings)
Positions == 0..(max_smiles_chars - 1)

InVocabulary(c) == \E j \in 1..Len(unique_charset) : unique_charset[j] = Chr(c)

-----------------------------------------------------------------------------
(* generate_charset: claims C1 and C9, under SpecCharset *)

\* C1: the vocabulary returned for a corpus is 'NULL', 'PAD', then the distinct
\* characters of the corpus, each once, in strictly ascending code-point order;
\* its length is 2 + the number of distinct characters, and the empty corpus
\* gives exactly ['NULL', 'PAD'].
C1_CharsetLayout ==
    pc = "generated" =>
        /\ Len(charset) = 2 + Cardinality(CharsIn(full_char_list))
        /\ charset[1] = NULL
        /\ charset[2] = PAD
        /\ {charset[k] : k \in 3..Len(charset)}
               = {Chr(c) : c \in CharsIn(full_char_list)}
        /\ \A k \in 3..(Len(charset) - 1) : charset[k][1] < charset[k + 1][1]
        /\ (full_char_list = <<>> => charset = <<NULL, PAD>>)

\* A corpus of three distinct characters, out of order and with a repeat.
C1_Witness ==
    /\ pc = "generated"
    /\ full_char_list = << <<88, 67>>, <<49, 67>> >>
    /\ charset = <<NULL, PAD, Chr(49), Chr(67), Chr(88)>>

\* C9: two calls on corpora with the same set of characters, the second a
\* reordering of the first or repeating strings of it, return the same
\* vocabulary position for position.
C9_OrderAndMultiplicity ==
    (/\ pc = "generated"
     /\ first_charset # <<>>
     /\ CharsIn(first_char_list) = CharsIn(full_char_list))
        => charset = first_charset

\* The second call saw the strings of the first in another order.
C9_Witness ==
    /\ pc = "generated"
    /\ first_char_list = << <<88>>, <<49, 67>> >>
    /\ full_char_list = << <<49, 67>>, <<88>> >>
    /\ first_charset = charset

-----------------------------------------------------------------------------
(* smiles_to_onehots: claims C2..C8 and C10, under Spec *)

\* C2: in the result of a call that returns, at every (sample, position) the
\* entries along the vocabulary axis are 0 or 1, exactly one of them is 1, and
\* their sum is 1.
C2_ExactlyOneHot ==
    Returned(one_hots) =>
        \A k \in Samples : \A i \in Positions :
            LET col == Column(one_hots, k, i)
            IN  /\ \A j \in 1..Len(col) : col[j] \in {0, 1}
                /\ Cardinality(Active(one_hots, k, i)) = 1
                /\ SumSeq(col) = 1

\* A returned encoding with a known character, an unknown one and padding.
C2_Witness ==
    /\ Returned(one_hots)
    /\ smiles_strings = << <<67, 88>> >>
    /\ unique_charset = <<NULL, PAD, Chr(67)>>
    /\ max_smiles_chars = 3

\* C3: at a position inside the string and below max_length whose character
\* occurs in the vocabulary, the one activated index is the (first) position of
\* that character in the vocabulary.
C3_InVocabularyIndex ==
    Returned(one_hots) =>
        \A k \in Samples : \A i \in Positions :
            (i < Len(smiles_strings[k]) /\ InVocabulary(smiles_strings[k][i + 1])) =>
                \E j \in 0..(Len(unique_charset) - 1) :
                    /\ unique_charset[j + 1] = Chr(smiles_strings[k][i + 1])
                    /\ \A h \in 0..(j - 1) :
                           unique_charset[h + 1] # Chr(smiles_strings[k][i + 1])
                    /\ Active(one_hots, k, i) = {j}

\* 'C1' under ['NULL','PAD','1','C'] activates 3 then 2.
C3_Witness ==
    /\ Returned(one_hots)
    /\ smiles_strings = << <<67, 49>> >>
    /\ unique_charset = <<NULL, PAD, Chr(49), Chr(67)>>
    /\ max_smiles_chars = 3
    /\ Active(one_hots, 1, 0) = {3}
    /\ Active(one_hots, 1, 1) = {2}

\* C4: at a position inside the string and below max_length whose character
\* does not occur in the vocabulary, the call raises no error and the one
\* activated index is 0 (NULL).
C4_OutOfVocabularyIsNull ==
    one_hots.called =>
        \A k \in Samples : \A i \in Positions :
            (i < Len(smiles_strings[k]) /\ ~InVocabulary(smiles_strings[k][i + 1])) =>
                /\ ~one_hots.raised
                /\ Active(one_hots, k, i) = {0}

\* C5: for a string shorter than max_length, every position from the string's
\* length to max_length - 1 activates index 1 (PAD) and no other index.
C5_PaddingIsPad ==
    Returned(one_hots) =>
        \A k \in Samples : \A i \in Positions :
            i >= Len(smiles_strings[k]) => Active(one_hots, k, i) = {1}

\* A one-character string encoded to three positions: two of padding.
C5_Witness ==
    /\ Returned(one_hots)
    /\ smiles_strings = << <<67>> >>
    /\ max_smiles_chars = 3
    /\ Active(one_hots, 1, 1) = {1}
    /\ Active(one_hots, 1, 2) = {1}

\* C6: the result has shape (number of strings, max_length, vocabulary size),
\* zero-sized dimensions included.
C6_Shape ==
    Returned(one_hots) =>
        one_hots.shape = <<Len(smiles_strings), max_smiles_chars, Len(unique_charset)>>

\* C7: with an empty vocabulary, a vocabulary of fewer than 2 entries,
\* max_length = 0 or an empty string list, the call returns instead of raising.
C7_NoErrorWhenDegenerate ==
    (/\ one_hots.called
     /\ \/ Len(unique_charset) < 2
        \/ max_smiles_chars = 0
        \/ smiles_strings = <<>>)
        => ~one_hots.raised

\* C8: for a string longer than max_length the call raises no error and the
\* string's encoding equals the encoding of its first max_length characters.
C8_Truncation ==
    pc = "done" =>
        \A k \in Samples :
            Len(smiles_strings[k]) > max_smiles_chars =>
                /\ ~one_hots.raised
                /\ ~prefix_one_hots.raised
                /\ one_hots.data[k] = prefix_one_hots.data[k]

\* C10: under a vocabulary produced by generate_charset, a string of exactly
\* max_length characters that all occur in the vocabulary activates neither
\* index 1 (PAD) nor index 0 (NULL): every activated index is >= 2.
C10_FullLengthNoPad ==
    (/\ Returned(one_hots)
     /\ charset # <<>>
     /\ unique_charset = charset) =>
        \A k \in Samples :
            (/\ Len(smiles_strings[k]) = max_smiles_chars
             /\ \A p \in 1..Len(smiles_strings[k]) : InVocabulary(smiles_strings[k][p])) =>
                \A i \in Positions :
                    /\ Active(one_hots, k, i) # {}
                    /\ \A j \in Active(one_hots, k, i) : j >= 2

\* The corpus itself, two characters long, encoded to two positions.
C10_Witness ==
    /\ Returned(one_hots)
    /\ full_char_list = << <<67, 49>> >>
    /\ unique_charset = charset
    /\ smiles_strings = << <<67, 49>> >>
    /\ max_smiles_chars = 2
    /\ Active(one_hots, 1, 0) = {3}
    /\ Active(one_hots, 1, 1) = {2}

====
